---- MODULE Spec2Model ----
(***************************************************************************)
(* A model of main.py of ReversoContextOneToOne: the part-of-speech        *)
(* equivalence, the one-to-one detector and the exploration loop of run(). *)
(*                                                                         *)
(* A Python str is a finite sequence of tokens.  A token is the text of    *)
(* one atomic part-of-speech tag ("nf.", "v.", ...), the separator "/" or  *)
(* one blank " ".  No token is a concatenation of other tokens, so two     *)
(* strs are equal exactly when their token sequences are equal.            *)
(***************************************************************************)
EXTENDS Integers, Sequences, FiniteSets, TLC

VARIABLES
    \* ---- part_of_speech_equivalence(pos1, pos2), called on its own
    pos1, pos2, pos_done, pos_result,
    \* ---- check_one_to_one(original_word, translations, ...), called on its own
    det_original, det_translations, det_back, det_done, det_record,
    \* ---- get_words_from_context_sentences(context_api, source_nlp), called on
    \*      its own: the example texts, the text analysed, the lemmas returned
    ext_sentences, ext_done, ext_text, ext_result,
    \* ---- the Translation Provider: what get_translations() answers
    forward,                    \* source word -> its translations (line 218)
    reverse,                    \* target word -> its back translations (line 73)
    \* ---- run(): parameters, locals, and the place reached in the loop body
    pc,
    iteration_count,
    i,
    current_word,
    translations,               \* dict: processed word -> list of Translation
    one_to_one_translations,    \* list of OneToOneRecord
    words_to_translate,         \* deque of words
    scraped_words,              \* set of words
    translation_objects,
    record,
    reports,                    \* what report_progress was called with, in order
    savefile,                   \* what save_to_file wrote last
    \* ---- the history of the run
    processed,                  \* the words queried forward, in order
    dequeued,                   \* the words popped from the deque, in order
    first_batch,                \* word -> the number of the first batch holding it
    queries,                    \* the ReversoContextAPI objects queried, in order
    saved_at                    \* the iterations in which save_to_file was called

pos_vars == <<pos1, pos2, pos_done, pos_result>>
det_vars == <<det_original, det_translations, det_back, det_done, det_record>>
ext_vars == <<ext_sentences, ext_done, ext_text, ext_result>>
provider_vars == <<forward, reverse>>
run_vars == <<pc, iteration_count, i, current_word, translations,
              one_to_one_translations, words_to_translate, scraped_words,
              translation_objects, record, reports, savefile>>
history_vars == <<processed, dequeued, first_batch, queries, saved_at>>

----------------------------------------------------------------------------
(* Bounds *)

\* longest part-of-speech str, in tokens
MaxTagLen == 3

\* longest list of back translations handed to the detector on its own
MaxBackLen == 2

\* largest iteration_count run() is called with
MaxIterations == 3

\* most example sentences the provider yields for one word
MaxSentences == 11

----------------------------------------------------------------------------
(* Python values *)

\* Python's None where a str is expected: no str holds the token "None"
None == <<"None">>

Chars == {"nf.", "nm.", "v.", "/", " "}

Strs(n) == UNION {[1..k -> Chars] : k \in 0..n}

\* every value Translation.part_of_speech takes in the model
Tags == Strs(MaxTagLen) \cup {None}

Range(s) == {s[k] : k \in 1..Len(s)}

----------------------------------------------------------------------------
(* str.strip() and str.split("/") *)

RECURSIVE lstrip(_)
lstrip(s) ==
    IF s = <<>> THEN <<>>
    ELSE IF Head(s) = " " THEN lstrip(Tail(s))
    ELSE s

RECURSIVE rstrip(_)
rstrip(s) ==
    IF s = <<>> THEN <<>>
    ELSE IF s[Len(s)] = " " THEN rstrip(SubSeq(s, 1, Len(s) - 1))
    ELSE s

strip(s) == rstrip(lstrip(s))

\* s.split("/"): the pieces between the separators, empty pieces kept
RECURSIVE split(_)
split(s) ==
    IF s = <<>> THEN << <<>> >>
    ELSE IF Head(s) = "/" THEN << <<>> >> \o split(Tail(s))
    ELSE LET rest == split(Tail(s))
         IN  << <<Head(s)>> \o Head(rest) >> \o Tail(rest)

----------------------------------------------------------------------------
(* part_of_speech_equivalence *)

equivalence_classes ==
    << { <<"nn.">>, <<"nm.">>, <<"nf.">>, <<"n.">>,
         <<"npl.">>, <<"nnpl.">>, <<"nmpl.">>, <<"nfpl.">> } >>

\* the slip of testing _pos1 twice in the class membership
_equivalent_pos1_twice(_pos1, _pos2) ==
    IF _pos1 = _pos2 THEN TRUE
    ELSE \E k \in 1..Len(equivalence_classes) :
            _pos1 \in equivalence_classes[k] /\ _pos1 \in equivalence_classes[k]

_equivalent(_pos1, _pos2) ==
    IF _pos1 = _pos2 THEN TRUE
    ELSE \E k \in 1..Len(equivalence_classes) :
            _pos1 \in equivalence_classes[k] /\ _pos2 \in equivalence_classes[k]

\* zip(pos1_list, pos2_list) in place of the product: pairs position by position
zip(l1, l2) ==
    [k \in 1..(IF Len(l1) < Len(l2) THEN Len(l1) ELSE Len(l2)) |-> <<l1[k], l2[k]>>]

\* itertools.product(l1, l2): every pair, the right index running fastest
product(l1, l2) ==
    [k \in 1..(Len(l1) * Len(l2)) |->
        << l1[((k - 1) \div Len(l2)) + 1], l2[((k - 1) % Len(l2)) + 1] >>]

\* the for loop of lines 49-52: False at the first pair that is not equivalent
RECURSIVE all_pairs_equivalent(_)
all_pairs_equivalent(pairs) ==
    IF pairs = <<>> THEN TRUE
    ELSE IF ~_equivalent(Head(pairs)[1], Head(pairs)[2]) THEN FALSE
    ELSE all_pairs_equivalent(Tail(pairs))

part_of_speech_equivalence(p1, p2) ==
    IF p1 = None \/ p2 = None \/ strip(p1) = <<>> \/ strip(p2) = <<>>
        THEN FALSE
    ELSE all_pairs_equivalent(product(split(p1), split(p2)))

----------------------------------------------------------------------------
(* Translation, OneToOneRecord *)

\* words of the source language and of the target language
SourceWords == {"w1", "w2", "w3"}
TargetWords == {"t1", "t2"}

\* reverso_api's Translation namedtuple, the fields main.py reads
Translation(translation, frequency, part_of_speech) ==
    [translation |-> translation, frequency |-> frequency,
     part_of_speech |-> part_of_speech]

OneToOneRecord(word, frequency, translation) ==
    [word |-> word, frequency |-> frequency, translation |-> translation]

\* Python's None where a OneToOneRecord is expected
NoneRecord == [is_none |-> TRUE]

----------------------------------------------------------------------------
(* check_one_to_one *)

\* lines 77-83: the back translations of the top translation's part of speech
filtered_back_translation_objects(back_translation_objects, top_translation_object) ==
    SelectSeq(back_translation_objects,
              LAMBDA t : part_of_speech_equivalence(
                             t.part_of_speech, top_translation_object.part_of_speech))

\* the slip of taking the first filtered back translation without comparing it
find_match_unchecked(original_word, top_back_translation_object, filtered) ==
    IF top_back_translation_object.translation = original_word
        THEN <<top_back_translation_object>>
    ELSE IF filtered # <<>>
        THEN <<filtered[1]>>
    ELSE <<>>

\* lines 84-93: match, <<>> standing for None
find_match(original_word, top_back_translation_object, filtered) ==
    IF top_back_translation_object.translation = original_word
        THEN <<top_back_translation_object>>
    ELSE IF filtered # <<>> /\ filtered[1].translation = original_word
        THEN <<filtered[1]>>
    ELSE <<>>

\* the slip of reading the frequency of the matched back translation
match_frequency(top_back_translation_object, match) == match[1].frequency

\* line 98
original_word_frequency(top_back_translation_object, match) ==
    top_back_translation_object.frequency

\* lines 63-102; back_translation_objects is what the reversed query of lines
\* 68-73 returns for translations[0].translation; forward_translations is the
\* parameter translations
check_one_to_one(original_word, forward_translations, back_translation_objects) ==
    IF forward_translations = <<>> THEN NoneRecord
    ELSE
        LET top_translation_object == forward_translations[1]
            top_translation_string == top_translation_object.translation
        IN
        IF back_translation_objects = <<>> THEN NoneRecord
        ELSE
            LET top_back_translation_object == back_translation_objects[1]
                filtered == filtered_back_translation_objects(
                                back_translation_objects, top_translation_object)
                match == find_match(original_word, top_back_translation_object, filtered)
            IN
            IF match = <<>> THEN NoneRecord
            ELSE OneToOneRecord(
                     original_word,
                     original_word_frequency(top_back_translation_object, match),
                     top_translation_string)

----------------------------------------------------------------------------
(* run(): the state *)

REPORT_INTERVAL == 25
SAVE_INTERVAL == 100

\* __main__ starts every run at one word
start_word == "w1"

\* what the provider may answer to a forward query
RunForward ==
    { <<>>,
      << Translation("t1", 1, <<"nf.">>) >>,
      << Translation("t2", 1, <<"v.">>), Translation("t1", 1, <<"nf.">>) >> }

\* what the provider may answer to a reversed query
RunBack ==
    { <<>>,
      << Translation("w1", 5, <<"nm.">>), Translation("w2", 7, <<"v.">>) >>,
      << Translation("w2", 7, <<"v.">>), Translation("w1", 5, <<"nm.">>) >> }

\* source_lang, target_lang of __main__
source_lang == "ru"
target_lang == "en"

\* no file written yet
NoFile == [written |-> FALSE]

\* a file an earlier run left at savefile_path
StaleFile ==
    [written |-> TRUE,
     translations |-> [w \in {"w3"} |-> << Translation("t2", 1, <<"v.">>) >>],
     one_to_one_translations |-> << OneToOneRecord("w3", 7, "t2") >>]

\* the orders in which iterating a set of words may yield them
Orders(S) ==
    { order \in [1..Cardinality(S) -> S] :
        \A a, b \in 1..Cardinality(S) : order[a] = order[b] => a = b }

IdlePos ==
    /\ pos1 = None
    /\ pos2 = None
    /\ pos_done = TRUE
    /\ pos_result = FALSE

IdleDet ==
    /\ det_original = "w1"
    /\ det_translations = <<>>
    /\ det_back = <<>>
    /\ det_done = TRUE
    /\ det_record = NoneRecord

IdleExt ==
    /\ ext_sentences = <<>>
    /\ ext_done = TRUE
    /\ ext_text = <<>>
    /\ ext_result = {}

\* lines 193-208, the locals of run() before the first iteration
InitLocals ==
    /\ i = 0
    /\ current_word = start_word
    /\ translations = <<>>
    /\ one_to_one_translations = <<>>
    /\ words_to_translate = <<>>
    /\ scraped_words = {}
    /\ translation_objects = <<>>
    /\ record = NoneRecord
    /\ reports = <<>>
    /\ processed = <<>>
    /\ dequeued = <<>>
    /\ first_batch = <<>>
    /\ queries = <<>>
    /\ saved_at = <<>>

\* run() not called
IdleRun ==
    /\ forward = [w \in SourceWords |-> <<>>]
    /\ reverse = [t \in TargetWords |-> <<>>]
    /\ pc = "idle"
    /\ iteration_count = 0
    /\ savefile = NoFile
    /\ InitLocals

Init ==
    /\ forward \in [SourceWords -> RunForward]
    /\ reverse \in [TargetWords -> RunBack]
    /\ iteration_count \in 0..MaxIterations
    /\ pc = "for"
    /\ savefile \in {NoFile, StaleFile}
    /\ InitLocals
    /\ IdlePos
    /\ IdleDet
    /\ IdleExt

----------------------------------------------------------------------------
(* run(): the loop body, statement by statement *)

\* the loop running once more: range(iteration_count + 1)
ForLoopOnceMore ==
    /\ pc = "for"
    /\ pc' = IF i < iteration_count + 1 THEN "query" ELSE "done"
    /\ UNCHANGED <<iteration_count, i, current_word, translations,
                   one_to_one_translations, words_to_translate, scraped_words,
                   translation_objects, record, reports, savefile>>
    /\ UNCHANGED <<history_vars, provider_vars, pos_vars, det_vars, ext_vars>>

\* line 210: for i in range(iteration_count)
ForLoop ==
    /\ pc = "for"
    /\ pc' = IF i < iteration_count THEN "query" ELSE "done"
    /\ UNCHANGED <<iteration_count, i, current_word, translations,
                   one_to_one_translations, words_to_translate, scraped_words,
                   translation_objects, record, reports, savefile>>
    /\ UNCHANGED <<history_vars, provider_vars, pos_vars, det_vars, ext_vars>>

\* lines 211-215 and 68-72: what a ReversoContextAPI object is built from
ReversoContextAPI(source_text, from_lang, to_lang) ==
    [source_text |-> source_text, source_lang |-> from_lang, target_lang |-> to_lang]

\* translations[current_word] = translation_objects
setitem(dict, key, value) ==
    [k \in (DOMAIN dict) \cup {key} |-> IF k = key THEN value ELSE dict[k]]

\* lines 211-224: the forward query and the entry in the table
Query ==
    /\ pc = "query"
    /\ translation_objects' = forward[current_word]
    /\ translations' = setitem(translations, current_word, translation_objects')
    /\ processed' = Append(processed, current_word)
    /\ queries' = Append(queries,
                         ReversoContextAPI(current_word, source_lang, target_lang))
    /\ pc' = "detect"
    /\ UNCHANGED <<iteration_count, i, current_word, one_to_one_translations,
                   words_to_translate, scraped_words, record, reports, savefile>>
    /\ UNCHANGED <<dequeued, first_batch, saved_at>>
    /\ UNCHANGED <<provider_vars, pos_vars, det_vars, ext_vars>>

\* lines 68-73: the reversed query for the top translation, made only when
\* translations is not empty (line 63 returns before it otherwise)
back_translations(translation_list) ==
    IF translation_list = <<>> THEN <<>>
    ELSE reverse[translation_list[1].translation]

\* the query built with the languages in the order of the forward query
unswapped_api(top_translation_string) ==
    ReversoContextAPI(top_translation_string, source_lang, target_lang)

\* lines 67-72: source and target languages swapped
reverso_context_api(top_translation_string) ==
    ReversoContextAPI(top_translation_string, target_lang, source_lang)

\* lines 63-73: the queries one call of check_one_to_one makes
reversed_queries(translation_list) ==
    IF translation_list = <<>> THEN <<>>
    ELSE << reverso_context_api(translation_list[1].translation) >>

\* one_to_one_translations.insert(0, record) in place of append
DetectInsertFront ==
    /\ pc = "detect"
    /\ record' = check_one_to_one(current_word, translation_objects,
                                  back_translations(translation_objects))
    /\ one_to_one_translations' =
          IF record' = NoneRecord THEN one_to_one_translations
          ELSE <<record'>> \o one_to_one_translations
    /\ queries' = queries \o reversed_queries(translation_objects)
    /\ pc' = "expand"
    /\ UNCHANGED <<iteration_count, i, current_word, translations,
                   words_to_translate, scraped_words, translation_objects,
                   reports, savefile>>
    /\ UNCHANGED <<processed, dequeued, first_batch, saved_at>>
    /\ UNCHANGED <<provider_vars, pos_vars, det_vars, ext_vars>>

\* lines 226-236: the detector, and the append to the ledger
Detect ==
    /\ pc = "detect"
    /\ record' = check_one_to_one(current_word, translation_objects,
                                  back_translations(translation_objects))
    /\ one_to_one_translations' =
          IF record' = NoneRecord THEN one_to_one_translations
          ELSE Append(one_to_one_translations, record')
    /\ queries' = queries \o reversed_queries(translation_objects)
    /\ pc' = "expand"
    /\ UNCHANGED <<iteration_count, i, current_word, translations,
                   words_to_translate, scraped_words, translation_objects,
                   reports, savefile>>
    /\ UNCHANGED <<processed, dequeued, first_batch, saved_at>>
    /\ UNCHANGED <<provider_vars, pos_vars, det_vars, ext_vars>>

\* the slip of enqueueing the whole batch
whole_batch(batch_of_words, scraped) == batch_of_words

\* line 243: new_words = batch_of_words - scraped_words
new_words(batch_of_words, scraped) == batch_of_words \ scraped

\* line 244: words_to_translate.extend(new_words)
extend(queue, order) == queue \o order

\* line 245: scraped_words.update(new_words)
update(scraped, words) == scraped \cup words

\* lines 238-245: the batch of the extractor, and the new words into the pool
Expand ==
    /\ pc = "expand"
    /\ \E batch_of_words \in SUBSET SourceWords :
          \E order \in Orders(new_words(batch_of_words, scraped_words)) :
              /\ words_to_translate' = extend(words_to_translate, order)
              /\ scraped_words' = update(scraped_words, Range(order))
              /\ first_batch' =
                    [w \in (DOMAIN first_batch) \cup batch_of_words |->
                        IF w \in DOMAIN first_batch THEN first_batch[w] ELSE i]
    /\ pc' = "dequeue"
    /\ UNCHANGED <<iteration_count, i, current_word, translations,
                   one_to_one_translations, translation_objects, record,
                   reports, savefile>>
    /\ UNCHANGED <<processed, dequeued, queries, saved_at>>
    /\ UNCHANGED <<provider_vars, pos_vars, det_vars, ext_vars>>

\* deque.pop in place of popleft: the word and the rest, taken from the right
pop(queue) == <<queue[Len(queue)], SubSeq(queue, 1, Len(queue) - 1)>>

\* deque.popleft on a deque that is not empty: the word and the rest
popleft(queue) == <<Head(queue), Tail(queue)>>

\* a popleft that answers the start word on an empty deque
DequeueOrDefault ==
    /\ pc = "dequeue"
    /\ IF words_to_translate = <<>>
          THEN /\ current_word' = start_word
               /\ pc' = "report"
               /\ UNCHANGED <<words_to_translate, dequeued>>
          ELSE /\ current_word' = popleft(words_to_translate)[1]
               /\ words_to_translate' = popleft(words_to_translate)[2]
               /\ dequeued' = Append(dequeued, current_word')
               /\ pc' = "report"
    /\ UNCHANGED <<iteration_count, i, translations, one_to_one_translations,
                   scraped_words, translation_objects, record, reports, savefile>>
    /\ UNCHANGED <<processed, first_batch, queries, saved_at>>
    /\ UNCHANGED <<provider_vars, pos_vars, det_vars, ext_vars>>

\* lines 247-248: current_word = words_to_translate.popleft(); on an empty
\* deque popleft raises IndexError, which nothing catches: run() ends there
Dequeue ==
    /\ pc = "dequeue"
    /\ IF words_to_translate = <<>>
          THEN /\ pc' = "fatal"
               /\ UNCHANGED <<current_word, words_to_translate, dequeued>>
          ELSE /\ current_word' = popleft(words_to_translate)[1]
               /\ words_to_translate' = popleft(words_to_translate)[2]
               /\ dequeued' = Append(dequeued, current_word')
               /\ pc' = "report"
    /\ UNCHANGED <<iteration_count, i, translations, one_to_one_translations,
                   scraped_words, translation_objects, record, reports, savefile>>
    /\ UNCHANGED <<processed, first_batch, queries, saved_at>>
    /\ UNCHANGED <<provider_vars, pos_vars, det_vars, ext_vars>>

\* the first proportion taken over the words still waiting
report_progress_over_waiting(iteration, words_to_translate_count, scraped_words_count, translations_count, one_to_one_count) ==
    [iteration |-> iteration,
     words_to_translate_count |-> words_to_translate_count,
     scraped_words_count |-> scraped_words_count,
     translations_count |-> translations_count,
     one_to_one_count |-> one_to_one_count,
     raised |-> (words_to_translate_count = 0 \/ translations_count = 0)]

\* lines 136-156: the arguments of report_progress; the two divisions of
\* lines 147 and 152 raise ZeroDivisionError on a zero count
report_progress(iteration, words_to_translate_count, scraped_words_count, translations_count, one_to_one_count) ==
    [iteration |-> iteration,
     words_to_translate_count |-> words_to_translate_count,
     scraped_words_count |-> scraped_words_count,
     translations_count |-> translations_count,
     one_to_one_count |-> one_to_one_count,
     raised |-> (scraped_words_count = 0 \/ translations_count = 0)]

\* a report in every iteration, whatever i % REPORT_INTERVAL
ReportEveryIteration ==
    /\ pc = "report"
    /\ LET call == report_progress(i,
                        Len(words_to_translate),
                        Cardinality(scraped_words),
                        Cardinality(DOMAIN translations),
                        Len(one_to_one_translations))
       IN  /\ reports' = Append(reports, call)
           /\ pc' = IF call.raised THEN "crashed" ELSE "save"
    /\ UNCHANGED <<iteration_count, i, current_word, translations,
                   one_to_one_translations, words_to_translate, scraped_words,
                   translation_objects, record, savefile>>
    /\ UNCHANGED <<history_vars, provider_vars, pos_vars, det_vars, ext_vars>>

\* lines 250-258
Report ==
    /\ pc = "report"
    /\ IF i % REPORT_INTERVAL = 0
          THEN LET call == report_progress(i,
                               Len(words_to_translate),
                               Cardinality(scraped_words),
                               Cardinality(DOMAIN translations),
                               Len(one_to_one_translations))
               IN  /\ reports' = Append(reports, call)
                   /\ pc' = IF call.raised THEN "crashed" ELSE "save"
          ELSE /\ pc' = "save"
               /\ UNCHANGED reports
    /\ UNCHANGED <<iteration_count, i, current_word, translations,
                   one_to_one_translations, words_to_translate, scraped_words,
                   translation_objects, record, savefile>>
    /\ UNCHANGED <<history_vars, provider_vars, pos_vars, det_vars, ext_vars>>

\* lines 159-182: the struct dumped to the file, which open(file_path, "w")
\* truncates first
save_to_file(translation_dict, one_to_one_list) ==
    [written |-> TRUE,
     translations |-> translation_dict,
     one_to_one_translations |-> one_to_one_list]

\* a save that keeps what the file held and adds the snapshot to it
SaveMerging ==
    /\ pc = "save"
    /\ savefile' =
          IF i % SAVE_INTERVAL # 0 THEN savefile
          ELSE IF ~savefile.written
              THEN save_to_file(translations, one_to_one_translations)
          ELSE save_to_file(
                   [w \in (DOMAIN savefile.translations) \cup (DOMAIN translations) |->
                       IF w \in DOMAIN translations THEN translations[w]
                       ELSE savefile.translations[w]],
                   savefile.one_to_one_translations \o one_to_one_translations)
    /\ saved_at' = IF i % SAVE_INTERVAL = 0 THEN Append(saved_at, i) ELSE saved_at
    /\ pc' = "sleep"
    /\ UNCHANGED <<iteration_count, i, current_word, translations,
                   one_to_one_translations, words_to_translate, scraped_words,
                   translation_objects, record, reports>>
    /\ UNCHANGED <<processed, dequeued, first_batch, queries>>
    /\ UNCHANGED <<provider_vars, pos_vars, det_vars, ext_vars>>

\* lines 259-266
Save ==
    /\ pc = "save"
    /\ savefile' = IF i % SAVE_INTERVAL = 0
                      THEN save_to_file(translations, one_to_one_translations)
                      ELSE savefile
    /\ saved_at' = IF i % SAVE_INTERVAL = 0 THEN Append(saved_at, i) ELSE saved_at
    /\ pc' = "sleep"
    /\ UNCHANGED <<iteration_count, i, current_word, translations,
                   one_to_one_translations, words_to_translate, scraped_words,
                   translation_objects, record, reports>>
    /\ UNCHANGED <<processed, dequeued, first_batch, queries>>
    /\ UNCHANGED <<provider_vars, pos_vars, det_vars, ext_vars>>

\* line 267, and the step of the for loop to the next i
Sleep ==
    /\ pc = "sleep"
    /\ i' = i + 1
    /\ pc' = "for"
    /\ UNCHANGED <<iteration_count, current_word, translations,
                   one_to_one_translations, words_to_translate, scraped_words,
                   translation_objects, record, reports, savefile>>
    /\ UNCHANGED <<history_vars, provider_vars, pos_vars, det_vars, ext_vars>>

Next ==
    \/ ForLoop
    \/ Query
    \/ Detect
    \/ Expand
    \/ Dequeue
    \/ Report
    \/ Save
    \/ Sleep

----------------------------------------------------------------------------
(* clean_up_text, get_words_from_context_sentences *)

\* A text is a sequence of characters: letters "a" and "s", the digit "1", the
\* dash "-" and the blank " ".

\* str.isalpha() of one character
isalpha(c) == c \in {"a", "s"}

\* the words the pipeline finds in a text: the stretches between blanks
RECURSIVE words_of(_)
words_of(text) ==
    IF text = <<>> THEN <<>>
    ELSE IF Head(text) = " " THEN words_of(Tail(text))
    ELSE LET rest == words_of(Tail(text))
         IN  IF Len(text) = 1 \/ text[2] = " "
                 THEN << <<Head(text)>> >> \o rest
             ELSE << <<Head(text)>> \o Head(rest) >> \o Tail(rest)

\* word.lemma: the base form, here the word without a plural "s"
lemma(word) ==
    IF Len(word) >= 2 /\ word[Len(word)] = "s"
        THEN SubSeq(word, 1, Len(word) - 1)
    ELSE word

\* lines 105-118
clean_up_text(text) ==
    LET all_lemmas == {lemma(word) : word \in Range(words_of(text))}
    IN  {l \in all_lemmas : \E k \in 1..Len(l) : isalpha(l[k])}

sentence_count == 10

\* the whole iterable in place of the slice
no_islice(iterable, stop) == iterable

\* itertools.islice(iterable, stop)
islice(iterable, stop) ==
    SubSeq(iterable, 1, IF Len(iterable) < stop THEN Len(iterable) ELSE stop)

\* lines 130-131: all_text += context_sentence[0].text, sentence by sentence
RECURSIVE concatenate(_)
concatenate(sentences) ==
    IF sentences = <<>> THEN <<>>
    ELSE Head(sentences) \o concatenate(Tail(sentences))

\* lines 126-131: the text handed to clean_up_text
all_text(context_sentences) == concatenate(islice(context_sentences, sentence_count))

\* lines 121-133
get_words_from_context_sentences(context_sentences) ==
    clean_up_text(all_text(context_sentences))

\* the example texts context_api.get_examples() may yield
ExampleTexts ==
    { <<"1", "a", " ", "-", " ">>,
      <<"a", "s", " ", "1">> }

InitExt ==
    /\ ext_sentences \in UNION {[1..n -> ExampleTexts] : n \in 0..MaxSentences}
    /\ ext_done = FALSE
    /\ ext_text = <<>>
    /\ ext_result = {}
    /\ IdlePos
    /\ IdleDet
    /\ IdleRun

CallExtractor ==
    /\ ~ext_done
    /\ ext_text' = all_text(ext_sentences)
    /\ ext_result' = get_words_from_context_sentences(ext_sentences)
    /\ ext_done' = TRUE
    /\ UNCHANGED ext_sentences
    /\ UNCHANGED <<pos_vars, det_vars, provider_vars, run_vars, history_vars>>

NextExt == CallExtractor

----------------------------------------------------------------------------
(* The detector called on any word and any two lists *)

DetTags == {None, <<"nf.">>, <<"nm.">>, <<"v.">>}

DetForward ==
    LET cand == {Translation(t, 1, p) : t \in TargetWords, p \in {<<"nf.">>, <<"v.">>}}
    IN  UNION {[1..k -> cand] : k \in 0..2}

DetBack ==
    LET cand == {Translation(w, f, p) : w \in {"w1", "w2"}, f \in {5, 7}, p \in DetTags}
    IN  UNION {[1..k -> cand] : k \in 0..MaxBackLen}

InitDet ==
    /\ det_original \in {"w1", "w2"}
    /\ det_translations \in DetForward
    /\ det_back \in DetBack
    /\ det_done = FALSE
    /\ det_record = NoneRecord
    /\ IdlePos
    /\ IdleExt
    /\ IdleRun

CallDetector ==
    /\ ~det_done
    /\ det_record' = check_one_to_one(det_original, det_translations, det_back)
    /\ det_done' = TRUE
    /\ UNCHANGED <<det_original, det_translations, det_back>>
    /\ UNCHANGED <<pos_vars, ext_vars, provider_vars, run_vars, history_vars>>

NextDet == CallDetector

----------------------------------------------------------------------------
(* The equivalence called on any two tags *)

InitPos ==
    /\ pos1 \in Tags
    /\ pos2 \in Tags
    /\ pos_done = FALSE
    /\ pos_result = FALSE
    /\ IdleDet
    /\ IdleExt
    /\ IdleRun

CallEquivalence ==
    /\ ~pos_done
    /\ pos_result' = part_of_speech_equivalence(pos1, pos2)
    /\ pos_done' = TRUE
    /\ UNCHANGED <<pos1, pos2>>
    /\ UNCHANGED <<det_vars, ext_vars, provider_vars, run_vars, history_vars>>

NextPos == CallEquivalence

vars == <<pos_vars, det_vars, ext_vars, provider_vars, run_vars, history_vars>>

Spec == Init /\ [][Next]_vars

\* one thread runs the loop body to its end: a step that can be taken is taken
FairSpec == Spec /\ WF_vars(Next)

SpecPos == InitPos /\ [][NextPos]_vars

SpecDet == InitDet /\ [][NextDet]_vars

SpecExt == InitExt /\ [][NextExt]_vars

----------------------------------------------------------------------------
(* Properties of the equivalence *)

\* the pieces of s between separators: the maximal "/"-free stretches of s
Atoms(s) ==
    { SubSeq(s, a, b) : <<a, b>> \in
        { ab \in (1..(Len(s) + 1)) \X (0..Len(s)) :
            /\ ab[1] <= ab[2] + 1
            /\ \A k \in ab[1]..ab[2] : s[k] # "/"
            /\ (ab[1] = 1 \/ s[ab[1] - 1] = "/")
            /\ (ab[2] = Len(s) \/ s[ab[2] + 1] = "/") } }

IsBlank(s) == \A k \in 1..Len(s) : s[k] = " "

NounVariants == {"nn.", "nm.", "nf.", "n.", "npl.", "nnpl.", "nmpl.", "nfpl."}

Compatible(x, y) ==
    \/ x = y
    \/ /\ Len(x) = 1 /\ x[1] \in NounVariants
       /\ Len(y) = 1 /\ y[1] \in NounVariants

\* C8: the equivalence is symmetric: the answer for (pos1, pos2) is the
\* answer for (pos2, pos1), for absent, blank, atomic and slash-separated tags.
C8_Symmetric ==
    pos_done => (pos_result = part_of_speech_equivalence(pos2, pos1))

C8_Witness ==
    /\ pos_done /\ pos_result
    /\ pos1 # pos2
    /\ Len(split(pos1)) = 2

\* a tag as the provider writes it: one atomic tag, or atomic tags joined by "/"
IsDisjunction(s) ==
    /\ s # None
    /\ \A x \in Atoms(s) : Len(x) = 1 /\ x[1] # " "

\* C9: the equivalence is reflexive on every non-empty tag: an atomic tag or a
\* slash-separated disjunction of atomic tags, of different classes included,
\* is equivalent to itself.
C9_Reflexive ==
    (pos_done /\ pos1 = pos2 /\ IsDisjunction(pos1)) => pos_result

\* C10: the answer is false when a tag is absent or blank, and otherwise true
\* exactly when every atom of pos1 is compatible with every atom of pos2;
\* nf. and nm. are equivalent, nf. and v. are not.
C10_CrossProduct ==
    /\ pos_done =>
        (pos_result =
            IF pos1 = None \/ pos2 = None THEN FALSE
            ELSE IF IsBlank(pos1) \/ IsBlank(pos2) THEN FALSE
            ELSE \A x \in Atoms(pos1) : \A y \in Atoms(pos2) : Compatible(x, y))
    /\ (pos_done /\ pos1 = <<"nf.">> /\ pos2 = <<"nm.">>) => pos_result
    /\ (pos_done /\ pos1 = <<"nf.">> /\ pos2 = <<"v.">>) => ~pos_result

C10_Witness ==
    /\ pos_done /\ ~pos_result
    /\ pos1 = <<"nf.", "/", "v.">>
    /\ pos2 = <<"nf.">>

----------------------------------------------------------------------------
(* Properties of the detector *)

\* the positions of back whose part of speech is equivalent to part_of_speech
EquivalentPositions(back, part_of_speech) ==
    { k \in 1..Len(back) :
        part_of_speech_equivalence(back[k].part_of_speech, part_of_speech) }

\* word is the first translation of back with a part of speech equivalent to
\* part_of_speech
FirstEquivalentIs(word, back, part_of_speech) ==
    \E k \in EquivalentPositions(back, part_of_speech) :
        /\ \A j \in EquivalentPositions(back, part_of_speech) : k <= j
        /\ back[k].translation = word

\* C3: the detector returns none when the forward list is empty, the reverse
\* list is empty, or neither the top back translation nor the first back
\* translation of an equivalent part of speech is the original word; otherwise
\* it returns the record (original, frequency of the top back translation,
\* top forward translation).
C3_Detector ==
    det_done =>
        IF det_translations = <<>> \/ det_back = <<>>
            THEN det_record = NoneRecord
        ELSE IF \/ det_back[1].translation = det_original
                \/ FirstEquivalentIs(det_original, det_back,
                                     det_translations[1].part_of_speech)
            THEN det_record = [word |-> det_original,
                               frequency |-> det_back[1].frequency,
                               translation |-> det_translations[1].translation]
        ELSE det_record = NoneRecord

\* a match found in the filtered list only, whose frequency differs from the
\* frequency of the top back translation
C3_Witness ==
    /\ det_done
    /\ det_record # NoneRecord
    /\ Len(det_back) >= 2
    /\ det_back[1].translation # det_original
    /\ det_back[2].frequency # det_back[1].frequency
    /\ Len(det_translations) = 2

----------------------------------------------------------------------------
(* Properties of run() *)

NoDuplicates(s) == \A a, b \in 1..Len(s) : s[a] = s[b] => a = b

\* C1: each distinct word is queried forward and written to the table at most
\* once in a run, the start word included.
C1_ProcessedOnce == NoDuplicates(processed)

\* C2: every record (w, f, t) of the ledger has t as the top forward
\* translation of w, and w as the top back translation of t or as the first
\* back translation of t whose part of speech is equivalent to that of the top
\* forward translation of w.
C2_LedgerSound ==
    \A k \in 1..Len(one_to_one_translations) :
        LET r == one_to_one_translations[k]
        IN  /\ forward[r.word] # <<>>
            /\ forward[r.word][1].translation = r.translation
            /\ reverse[r.translation] # <<>>
            /\ \/ reverse[r.translation][1].translation = r.word
               \/ FirstEquivalentIs(r.word, reverse[r.translation],
                                    forward[r.word][1].part_of_speech)

\* a record whose word is not the top back translation: found by its part of
\* speech
C2_Witness ==
    \E k \in 1..Len(one_to_one_translations) :
        reverse[one_to_one_translations[k].translation][1].translation
            # one_to_one_translations[k].word

\* C4: every word that is or was in the queue is in seen, a word enters seen
\* in the step in which it enters the queue, and no word is appended twice:
\* the words popped followed by the words waiting hold no word twice.
C4_FrontierDedup ==
    /\ [](/\ Range(words_to_translate) \subseteq scraped_words
          /\ Range(dequeued) \subseteq scraped_words
          /\ NoDuplicates(dequeued \o words_to_translate))
    /\ [][(Range(words_to_translate') \ Range(words_to_translate))
            = (scraped_words' \ scraped_words)]_vars

\* a word enqueued after another word was popped
C4_Witness ==
    /\ Len(dequeued) >= 1
    /\ \E w \in Range(words_to_translate) : first_batch[w] >= 1

\* C5: seen is the union of the batches passed so far, the queue holds exactly
\* the words of seen not yet dequeued, and a word first seen in an earlier
\* batch is dequeued before any word first seen in a later batch.
C5_FrontierFifo ==
    /\ scraped_words = DOMAIN first_batch
    /\ Range(words_to_translate) = scraped_words \ Range(dequeued)
    /\ NoDuplicates(words_to_translate)
    /\ \A b \in 1..Len(dequeued) :
          \A w \in DOMAIN first_batch :
              first_batch[w] < first_batch[dequeued[b]]
                  => \E a \in 1..(b - 1) : dequeued[a] = w

\* two words of the first batch and one of the second, dequeued in that order
C5_Witness ==
    /\ Len(dequeued) = 3
    /\ first_batch[dequeued[2]] = 0
    /\ first_batch[dequeued[3]] = 1

\* C6: a dequeue that finds the queue empty ends the run in the fatal state:
\* current_word keeps its value, and no query, report, checkpoint or iteration
\* follows.
C6_EmptyFrontierFatal ==
    [][/\ (pc = "dequeue" /\ words_to_translate = <<>>)
            => /\ pc' = "fatal"
               /\ UNCHANGED <<current_word, i, processed, dequeued, reports,
                              savefile, translations, one_to_one_translations>>
       /\ (pc = "fatal") => (vars' = vars)]_vars

C6_Witness ==
    /\ pc = "fatal"
    /\ i >= 1

\* C7: every run ends, either normally after exactly iteration_count
\* iterations, each with one forward query and a dequeue that found a word, or
\* fatally at the first iteration whose dequeue finds the queue empty.
C7_Terminates ==
    /\ <>(pc \in {"done", "fatal"})
    /\ [](pc \in {"for", "query", "detect", "expand", "dequeue", "report",
                  "save", "sleep", "done", "fatal"})
    /\ [](pc = "done" => /\ i = iteration_count
                         /\ Len(processed) = iteration_count
                         /\ Len(dequeued) = iteration_count)
    /\ [](pc = "fatal" => /\ i < iteration_count
                          /\ words_to_translate = <<>>
                          /\ Len(processed) = i + 1
                          /\ Len(dequeued) = i)
    /\ [][(pc \in {"done", "fatal"}) => (vars' = vars)]_vars

C7_Witness ==
    /\ pc = "done"
    /\ iteration_count >= 2

\* C11: the ledger is append-only: a step leaves it as it is or appends the
\* one record the detector returned in that iteration, so every earlier ledger
\* is a prefix of every later one, and an iteration appends at most one record.
C11_LedgerAppendOnly ==
    /\ [][\/ one_to_one_translations' = one_to_one_translations
          \/ /\ pc = "detect"
             /\ record' # NoneRecord
             /\ one_to_one_translations' = Append(one_to_one_translations, record')]_vars
    /\ [](Len(one_to_one_translations) <= Len(processed))

\* two different records, appended in two iterations
C11_Witness ==
    /\ Len(one_to_one_translations) = 2
    /\ one_to_one_translations[1] # one_to_one_translations[2]

----------------------------------------------------------------------------
(* Properties of the extractor *)

\* the number of sentences the extractor reads
Taken == IF Len(ext_sentences) < 10 THEN Len(ext_sentences) ELSE 10

\* the length of the first k sentences together
RECURSIVE LengthOfFirst(_)
LengthOfFirst(k) ==
    IF k = 0 THEN 0 ELSE LengthOfFirst(k - 1) + Len(ext_sentences[k])

\* the maximal blank-free stretches of a text
Stretches(text) ==
    { SubSeq(text, ab[1], ab[2]) : ab \in
        { ab \in (1..Len(text)) \X (1..Len(text)) :
            /\ ab[1] <= ab[2]
            /\ \A k \in ab[1]..ab[2] : text[k] # " "
            /\ (ab[1] = 1 \/ text[ab[1] - 1] = " ")
            /\ (ab[2] = Len(text) \/ text[ab[2] + 1] = " ") } }

\* C14: the extractor analyses the first min(n, 10) sentences joined end to
\* end and nothing after them, and returns the distinct lemmas of that text
\* that hold at least one letter.
C14_Extractor ==
    ext_done =>
        /\ Len(ext_text) = LengthOfFirst(Taken)
        /\ \A k \in 1..Taken : \A j \in 1..Len(ext_sentences[k]) :
              ext_text[LengthOfFirst(k - 1) + j] = ext_sentences[k][j]
        /\ ext_result =
              { l \in {lemma(word) : word \in Stretches(ext_text)} :
                  \E c \in Range(l) : c \in {"a", "s"} }

\* eleven sentences, the eleventh the only one with the lemma "a"; the mixed
\* lemma "1a" of the first ten is returned, "a" and "-" are not
C14_Witness ==
    /\ ext_done
    /\ Len(ext_sentences) = 11
    /\ \A k \in 1..10 : ext_sentences[k] = <<"1", "a", " ", "-", " ">>
    /\ ext_sentences[11] = <<"a", "s", " ", "1">>
    /\ ext_result = { <<"1", "a">> }

----------------------------------------------------------------------------
(* Properties of the queries *)

\* the calls of check_one_to_one that have returned
DetectorCalls == IF pc = "detect" THEN Len(processed) - 1 ELSE Len(processed)

\* the queries made from the target language back to the source language
ReversedQueries == SelectSeq(queries, LAMBDA q : q.source_lang = "en")

\* C15 as stated: every call of the detector, whatever its input, has issued
\* exactly one reversed query.
C15_OneReversedQueryPerCall == Len(ReversedQueries) = DetectorCalls

\* the queries of one whole iteration for a word
QueriesFor(word) ==
    << [source_text |-> word, source_lang |-> "ru", target_lang |-> "en"] >>
    \o (IF forward[word] = <<>> THEN <<>>
        ELSE << [source_text |-> forward[word][1].translation,
                 source_lang |-> "en", target_lang |-> "ru"] >>)

RECURSIVE QueriesForAll(_)
QueriesForAll(words) ==
    IF words = <<>> THEN <<>>
    ELSE QueriesFor(Head(words)) \o QueriesForAll(Tail(words))

\* C15: a call of the detector issues one reversed query, for the top forward
\* translation with the two languages swapped, when the forward list is not
\* empty, and no query when it is empty; an iteration thus issues its forward
\* query followed by at most one reversed query.
C15_Queries ==
    queries =
        IF pc = "detect"
            THEN QueriesForAll(SubSeq(processed, 1, Len(processed) - 1))
                 \o << [source_text |-> processed[Len(processed)],
                        source_lang |-> "ru", target_lang |-> "en"] >>
        ELSE QueriesForAll(processed)

\* two detector calls have returned, one with a reversed query and one, on an
\* empty forward list, without
C15_Witness ==
    /\ pc = "expand"
    /\ Len(processed) = 2
    /\ forward[processed[1]] # <<>>
    /\ forward[processed[2]] = <<>>
    /\ Len(queries) = 3

----------------------------------------------------------------------------
(* Properties of the end of the run *)

\* C16: the run turns fatal on an empty frontier only while a further
\* iteration is still due, that is at an iteration i < iteration_count - 1;
\* an empty frontier at the dequeue of the last iteration is not fatal.
C16_FatalOnlyWithIterationsLeft == pc = "fatal" => i < iteration_count - 1

----------------------------------------------------------------------------
(* Properties of the order of the steps *)

\* the order of the steps of run(): one iteration from "query" to "sleep"
StepOrder ==
    { <<"for", "query">>, <<"query", "detect">>, <<"detect", "expand">>,
      <<"expand", "dequeue">>, <<"dequeue", "report">>, <<"dequeue", "fatal">>,
      <<"report", "save">>, <<"save", "sleep">>, <<"sleep", "for">>,
      <<"for", "done">> }

\* the iterations whose dequeue succeeded and that are past the given steps
PastWith(steps, interval) ==
    { j \in 0..(Len(dequeued) - 1) :
        /\ j % interval = 0
        /\ (j < i \/ pc \in steps) }

\* C17: in an iteration the table is written, then the detector runs and the
\* ledger grows, then the frontier is expanded, then a word is dequeued, then
\* the report, then the checkpoint; iteration j has a report exactly when
\* j % REPORT_INTERVAL = 0 and its dequeue succeeded, and a checkpoint exactly
\* when j % SAVE_INTERVAL = 0 and its dequeue succeeded.
C17_StepOrder ==
    /\ [][/\ pc' # pc => <<pc, pc'>> \in StepOrder
          /\ processed' # processed =>
                /\ pc = "query" /\ pc' = "detect"
                /\ DOMAIN translations' = DOMAIN translations \cup {current_word}
          /\ translations' # translations => processed' # processed
          /\ (pc = "detect" /\ pc' # pc) =>
                (record' = NoneRecord \/ record'.word = current_word)
          /\ one_to_one_translations' # one_to_one_translations => pc = "detect"
          /\ (scraped_words' # scraped_words \/ first_batch' # first_batch
                \/ Len(words_to_translate') > Len(words_to_translate)) =>
                (pc = "expand" /\ pc' = "dequeue")
          /\ (dequeued' # dequeued \/ current_word' # current_word
                \/ Len(words_to_translate') < Len(words_to_translate)) =>
                (pc = "dequeue" /\ pc' = "report")
          /\ reports' # reports => (pc = "report" /\ pc' = "save")
          /\ (saved_at' # saved_at \/ savefile' # savefile) =>
                (pc = "save" /\ pc' = "sleep")
          /\ i' # i => (pc = "sleep" /\ i' = i + 1)]_vars
    /\ [](/\ Len(dequeued) = (IF pc \in {"report", "save", "sleep"} THEN i + 1 ELSE i)
          /\ Len(reports) = Cardinality(PastWith({"save", "sleep"}, 25))
          /\ {reports[k].iteration : k \in 1..Len(reports)}
                = PastWith({"save", "sleep"}, 25)
          /\ Len(saved_at) = Cardinality(PastWith({"sleep"}, 100))
          /\ Range(saved_at) = PastWith({"sleep"}, 100))

\* iteration 0 made its report and its checkpoint, iteration 1 dequeued a word
\* and made neither, iteration 2 turned fatal and made neither
C17_Witness ==
    /\ pc = "fatal"
    /\ i = 2
    /\ Len(dequeued) = 2
    /\ Len(reports) = 1 /\ reports[1].iteration = 0
    /\ saved_at = <<0>>

----------------------------------------------------------------------------
(* Properties of the sizes of the ledger and of seen *)

\* C18: the ledger holds at most one record per original word, so it is never
\* longer than the translation table has entries, and the proportion
\* one_to_one_count / translations_count reported is at most 1.
C18_OneRecordPerWord ==
    /\ \A k, l \in 1..Len(one_to_one_translations) :
          one_to_one_translations[k].word = one_to_one_translations[l].word => k = l
    /\ Len(one_to_one_translations) <= Cardinality(DOMAIN translations)
    /\ \A k \in 1..Len(reports) :
          reports[k].one_to_one_count <= reports[k].translations_count

\* C19: at the end of every iteration the words of scraped_words fall into
\* three disjoint groups, the words waiting in words_to_translate, the keys of
\* translations and the word just dequeued into current_word; so
\* scraped_words has as many words as the queue holds plus the words dequeued,
\* and no key of translations waits in the queue.
C19_SeenPartition ==
    (pc = "for" /\ i >= 1) =>
        LET waiting == Range(words_to_translate)
            done == DOMAIN translations
            pending == {current_word}
        IN  /\ scraped_words = waiting \cup done \cup pending
            /\ waiting \cap done = {}
            /\ waiting \cap pending = {}
            /\ done \cap pending = {}
            /\ Cardinality(scraped_words) = Len(words_to_translate) + Len(dequeued)

\* C20: when run() returns normally after iteration_count >= 1 iterations,
\* the file last written holds every record of the final ledger and an entry
\* for every word processed in the run.
C20_FinalCheckpointComplete ==
    (pc = "done" /\ iteration_count >= 1) =>
        /\ savefile.written
        /\ \A k \in 1..Len(one_to_one_translations) :
              \E l \in 1..Len(savefile.one_to_one_translations) :
                  savefile.one_to_one_translations[l] = one_to_one_translations[k]
        /\ Range(processed) \subseteq DOMAIN savefile.translations

====
